---- MODULE Spec2Model ----
(***************************************************************************)
(* Model of the analysis engine of weather-dashboard (src/analysis.py) and  *)
(* of the table its loader builds (src/data_loader.py).                    *)
(*                                                                         *)
(* A DataFrame is a sequence of rows in index order; a row is a record     *)
(* with a "date" (days since 2000-01-01, the DatetimeIndex) and one field  *)
(* per column.  A cell is <<v>> for the number v and <<>> for NaN; None is *)
(* <<>> as well.  Sequence positions are 1-based here and 0-based in the   *)
(* Python source; nothing else differs.                                    *)
(*                                                                         *)
(* The state is the arguments of a call (df, var, ...), the entry point    *)
(* that was called last (op) and what it produced (result): a record       *)
(* [kind |-> "return", value |-> ...] or [kind |-> <exception name>].      *)
(* Floating-point rounding is not modelled: means and percentiles are      *)
(* exact rationals (a mean is <<sum, count>>, a percentile is kept in      *)
(* hundredths).                                                            *)
(***************************************************************************)
EXTENDS Integers, Sequences, FiniteSets, TLC

VARIABLES mask, df, var, window_days, resample_rule, stats, percentile,
          min_duration, season_months, op, result

vars == <<mask, df, var, window_days, resample_rule, stats, percentile,
          min_duration, season_months, op, result>>

args == <<mask, df, var, window_days, resample_rule, stats, percentile,
          min_duration, season_months>>

(***************************************************************************)
(* Bounds of the model.                                                    *)
(***************************************************************************)
MaxMask == 6
MaxRows == 4
MaxDur == 3
MaxWindow == 3
MaxVal == 2

(***************************************************************************)
(* Values: numbers, NaN, None.                                             *)
(***************************************************************************)
NaN == <<>>
None == <<>>
Num(v) == <<v>>
IsNaN(c) == c = <<>>
NumOf(c) == c[1]

Returned(v) == [kind |-> "return", value |-> v]
Raised(e) == [kind |-> e]

Min2(a, b) == IF a <= b THEN a ELSE b

RECURSIVE SumSeq(_)
SumSeq(s) == IF s = <<>> THEN 0 ELSE Head(s) + SumSeq(Tail(s))

\* The elements of a finite set of integers in ascending order (sorted(set(..))).
RECURSIVE SortedSeq(_)
SortedSeq(S) ==
    IF S = {} THEN <<>>
    ELSE LET m == CHOOSE x \in S : \A y \in S : x <= y
         IN <<m>> \o SortedSeq(S \ {m})

(***************************************************************************)
(* The proleptic Gregorian calendar, as pandas Timestamps use it.  A date  *)
(* is its number of days since 2000-01-01.                                 *)
(***************************************************************************)
CalendarYears == 2000..2003

IsLeap(y) == (y % 4 = 0 /\ y % 100 # 0) \/ y % 400 = 0
DaysInMonth(y, m) ==
    IF m = 2 THEN (IF IsLeap(y) THEN 29 ELSE 28)
    ELSE IF m \in {4, 6, 9, 11} THEN 30 ELSE 31
DaysInYear(y) == IF IsLeap(y) THEN 366 ELSE 365

RECURSIVE DaysBeforeYear(_)
DaysBeforeYear(y) ==
    IF y <= 2000 THEN 0 ELSE DaysBeforeYear(y - 1) + DaysInYear(y - 1)

RECURSIVE DaysBeforeMonth(_, _)
DaysBeforeMonth(y, m) ==
    IF m <= 1 THEN 0 ELSE DaysBeforeMonth(y, m - 1) + DaysInMonth(y, m - 1)

\* the first day of each month of the calendar
MonthStart == [y \in CalendarYears |-> [m \in 1..12 |-> DaysBeforeYear(y) + DaysBeforeMonth(y, m)]]

\* pd.Timestamp(year=y, month=m, day=d)
Timestamp(y, m, d) == MonthStart[y][m] + (d - 1)

\* Timestamp.year, Timestamp.month
YearOf(t) ==
    CHOOSE y \in CalendarYears :
        MonthStart[y][1] <= t /\ t < MonthStart[y][1] + DaysInYear(y)
MonthOf(t) ==
    LET y == YearOf(t)
    IN CHOOSE m \in 1..12 :
        MonthStart[y][m] <= t /\ t < MonthStart[y][m] + DaysInMonth(y, m)

\* ts + pd.offsets.MonthEnd(0): the last day of ts's month (ts itself if it is one)
MonthEnd0(t) == Timestamp(YearOf(t), MonthOf(t), DaysInMonth(YearOf(t), MonthOf(t)))

(***************************************************************************)
(* DataFrame and Series primitives.                                        *)
(***************************************************************************)
Columns == {"T"}

\* df[var]: the Series of column var, as rows [date, v]
Column(d, c) == [i \in 1..Len(d) |-> [date |-> d[i].date, v |-> d[i][c]]]

\* Series.dropna()
RECURSIVE DropNa(_)
DropNa(s) ==
    IF s = <<>> THEN <<>>
    ELSE (IF IsNaN(Head(s).v) THEN <<>> ELSE <<Head(s)>>) \o DropNa(Tail(s))

\* Series.fillna(0)
FillNa0(s) == [i \in 1..Len(s) |-> [date |-> s[i].date,
                                    v |-> IF IsNaN(s[i].v) THEN Num(0) ELSE s[i].v]]

(***************************************************************************)
(* get_monthly_records (analysis.py 22-31)                                 *)
(***************************************************************************)
\* Series.idxmax(): the position of the first occurrence of the maximum
RECURSIVE ArgMaxFrom(_, _, _)
ArgMaxFrom(s, i, best) ==
    IF i > Len(s) THEN best
    ELSE ArgMaxFrom(s, i + 1, IF NumOf(s[i].v) > NumOf(s[best].v) THEN i ELSE best)
IdxMaxLast(s) ==
    CHOOSE i \in 1..Len(s) :
        /\ \A j \in 1..Len(s) : NumOf(s[j].v) <= NumOf(s[i].v)
        /\ \A j \in (i + 1)..Len(s) : NumOf(s[j].v) < NumOf(s[i].v)
IdxMax(s) == ArgMaxFrom(s, 2, 1)

\* Series.idxmin(): the position of the first occurrence of the minimum
RECURSIVE ArgMinFrom(_, _, _)
ArgMinFrom(s, i, best) ==
    IF i > Len(s) THEN best
    ELSE ArgMinFrom(s, i + 1, IF NumOf(s[i].v) < NumOf(s[best].v) THEN i ELSE best)
IdxMin(s) == ArgMinFrom(s, 2, 1)

\* pd.DataFrame() is the frame with no rows; the record frame has one row.

GetMonthlyRecords(d, v) ==
    IF v \notin Columns THEN Raised("KeyError")
    ELSE LET series == DropNa(Column(d, v))
         IN IF series = <<>> THEN Returned(<<>>)
            ELSE Returned(<<[max_value |-> NumOf(series[IdxMax(series)].v),
                             max_date |-> series[IdxMax(series)].date,
                             min_value |-> NumOf(series[IdxMin(series)].v),
                             min_date |-> series[IdxMin(series)].date]>>)

(***************************************************************************)
(* rolling_mean (analysis.py 34-40)                                        *)
(***************************************************************************)
RECURSIVE AdvanceStartClosedLeft(_, _, _, _)
AdvanceStartClosedLeft(s, i, j, w) ==
    IF j >= i THEN i
    ELSE IF s[j].date >= s[i].date - w THEN j
    ELSE AdvanceStartClosedLeft(s, i, j + 1, w)

\* s.rolling("<w>D"), w >= 1: the window of row i is closed on the right and
\* open on the left.  pandas slides its start from the previous row's start
\* to the first row whose date is later than date(i) - w.
RECURSIVE AdvanceStart(_, _, _, _)
AdvanceStart(s, i, j, w) ==
    IF j >= i THEN i
    ELSE IF s[j].date > s[i].date - w THEN j
    ELSE AdvanceStart(s, i, j + 1, w)

RECURSIVE WindowStarts(_, _, _, _)
WindowStarts(s, i, prev, w) ==
    IF i > Len(s) THEN <<>>
    ELSE LET st == AdvanceStart(s, i, prev, w)
         IN <<st>> \o WindowStarts(s, i + 1, st, w)

\* .mean() of each window, as <<sum, count>> (min_periods is 1 for a
\* time-based window, so no window is too small)
RollingMeans(s, w) ==
    LET starts == WindowStarts(s, 1, 1, w)
    IN [i \in 1..Len(s) |->
          [date |-> s[i].date,
           mean |-> <<SumSeq([k \in 1..(i - starts[i] + 1) |-> NumOf(s[starts[i] + k - 1].v)]),
                      i - starts[i] + 1>>]]

\* Every outcome of rolling_mean.  The function checks neither the column nor
\* window_days itself: df[var] raises KeyError for a missing column; an empty
\* series is returned before .rolling() is reached; for a non-empty series and
\* window_days <= 0 what .rolling("0D") or .rolling("-1D") does is left to the
\* pandas at hand (it raises ValueError, or it returns some series).
RollingOutcomes(s, w) ==
    IF s = <<>> THEN {Returned(s)}
    ELSE IF w >= 1 THEN {Returned(RollingMeans(s, w))}
    ELSE {Raised("ValueError"), Returned("unspecified")}

\* a missing column taken for a column without data
RollingMeanMissingAsEmpty(d, v, w) ==
    IF v \notin Columns THEN {Returned(<<>>)}
    ELSE RollingOutcomes(DropNa(Column(d, v)), w)

RollingMean(d, v, w) ==
    IF v \notin Columns THEN {Raised("KeyError")}
    ELSE RollingOutcomes(DropNa(Column(d, v)), w)

(***************************************************************************)
(* estimate_trend (analysis.py 43-66)                                      *)
(***************************************************************************)
ResampleRules == {"A", "M"}

\* the calendar bucket of a date: its year for rule "A", its month (counted
\* from January of year 0) for rule "M"
BucketKey(t, rule) == IF rule = "A" THEN YearOf(t) ELSE YearOf(t) * 12 + (MonthOf(t) - 1)

\* the year of a bucket's label (its last day): ser.index.year
BucketYear(key, rule) == IF rule = "A" THEN key ELSE key \div 12

\* the mean of the rows of s in bucket key, NaN for a bucket with no row
RECURSIVE BucketSum(_, _, _)
BucketSum(s, key, rule) ==
    IF s = <<>> THEN <<0, 0>>
    ELSE LET rest == BucketSum(Tail(s), key, rule)
         IN IF BucketKey(Head(s).date, rule) = key
            THEN <<NumOf(Head(s).v) + rest[1], 1 + rest[2]>>
            ELSE rest
BucketMean(s, key, rule) ==
    LET sc == BucketSum(s, key, rule)
    IN IF sc[2] = 0 THEN NaN ELSE sc

\* s.resample(rule).mean(): one bucket for every period from the first row's
\* to the last row's, none for an empty series
Resample(s, rule) ==
    IF s = <<>> THEN <<>>
    ELSE LET first == BucketKey(s[1].date, rule)
             last == BucketKey(s[Len(s)].date, rule)
         IN [k \in 1..(last - first + 1) |->
               [year |-> BucketYear(first + k - 1, rule),
                mean |-> BucketMean(s, first + k - 1, rule)]]

\* ser[~np.isnan(vals)]
RECURSIVE DropNaNBuckets(_)
DropNaNBuckets(ser) ==
    IF ser = <<>> THEN <<>>
    ELSE (IF IsNaN(Head(ser).mean) THEN <<>> ELSE <<Head(ser)>>) \o DropNaNBuckets(Tail(ser))

TooFewOffByOne(n) == n < 1

\* lines 51 and 56: len(ser) < 2, mask.sum() < 2
TooFew(n) == n < 2

\* A fitted quantity is kept as the solver and the pairs it was given.
Fit(solver, x, y) == <<solver, x, y>>

\* scipy.stats.linregress raises ValueError when all x values are identical
AllIdentical(x) == \A i, j \in 1..Len(x) : x[i] = x[j]

EstimateTrend(d, v, rule, st) ==
    IF v \notin Columns THEN Raised("KeyError")
    ELSE LET ser == Resample(DropNa(Column(d, v)), rule)
             kept == DropNaNBuckets(ser)
             x == [i \in 1..Len(kept) |-> kept[i].year]
             y == [i \in 1..Len(kept) |-> kept[i].mean]
         IN IF TooFew(Len(ser)) THEN Returned([slope |-> None, p_value |-> None])
            ELSE IF TooFew(Len(kept)) THEN Returned([slope |-> None, p_value |-> None])
            ELSE IF ~st THEN Returned([slope |-> Fit("polyfit", x, y), p_value |-> None])
            ELSE IF AllIdentical(x) THEN Raised("ValueError")
            ELSE Returned([slope |-> Fit("linregress", x, y),
                           p_value |-> Fit("linregress", x, y)])

(***************************************************************************)
(* _consecutive_ranges (analysis.py 69-83)                                 *)
(***************************************************************************)
\* np.where(mask)[0]: the positions of True, ascending
WhereTrue(m) == SortedSeq({i \in 1..Len(m) : m[i]})

\* the loop of lines 77-80, from position i of idx on
RECURSIVE RangesLoop(_, _, _, _)
RangesLoop(idx, i, starts, ends) ==
    IF i > Len(idx) THEN <<starts, ends>>
    ELSE IF idx[i] # idx[i - 1] + 1
         THEN RangesLoop(idx, i + 1, Append(starts, idx[i]), Append(ends, idx[i - 1]))
         ELSE RangesLoop(idx, i + 1, starts, ends)

\* zip(starts, ends)
Zip(a, b) == [i \in 1..Min2(Len(a), Len(b)) |-> <<a[i], b[i]>>]

ConsecutiveRangesNoGapTest(m) ==
    IF ~(\E i \in 1..Len(m) : m[i]) THEN <<>>
    ELSE LET idx == WhereTrue(m)
         IN <<<<idx[1], idx[Len(idx)]>>>>

ConsecutiveRanges(m) ==
    IF ~(\E i \in 1..Len(m) : m[i]) THEN <<>>
    ELSE LET idx == WhereTrue(m)
             se == RangesLoop(idx, 2, <<idx[1]>>, <<>>)
         IN Zip(se[1], Append(se[2], idx[Len(idx)]))

(***************************************************************************)
(* detect_heatwaves, detect_cold_spells (analysis.py 86-113)               *)
(***************************************************************************)
\* sorted(values), by insertion
RECURSIVE InsertSorted(_, _)
InsertSorted(x, s) ==
    IF s = <<>> THEN <<x>>
    ELSE IF x <= Head(s) THEN <<x>> \o s
    ELSE <<Head(s)>> \o InsertSorted(x, Tail(s))

RECURSIVE SortValues(_)
SortValues(s) == IF s = <<>> THEN <<>> ELSE InsertSorted(Head(s), SortValues(Tail(s)))

\* np.nanpercentile(values, p), numpy's default linear interpolation between the
\* two order statistics around position (n - 1) * p / 100, in hundredths:
\* <<100 * percentile>>, or NaN for no values (numpy returns nan with a warning).
NanPercentile(values, p) ==
    IF values = <<>> THEN NaN
    ELSE LET a == SortValues(values)
             n == Len(a)
             lo == ((n - 1) * p) \div 100
             rem == ((n - 1) * p) % 100
             hi == Min2(lo + 1, n - 1)
         IN Num(100 * a[lo + 1] + rem * (a[hi + 1] - a[lo + 1]))

\* the numbers of a Series without NaN
Values(s) == [i \in 1..Len(s) |-> NumOf(s[i].v)]

\* s > thresh and s < thresh, elementwise: False wherever either side is NaN
GreaterThan(s, thresh) ==
    [i \in 1..Len(s) |-> ~IsNaN(s[i].v) /\ ~IsNaN(thresh) /\ 100 * NumOf(s[i].v) > NumOf(thresh)]
HeatMaskInclusive(s, thresh) ==
    [i \in 1..Len(s) |-> ~IsNaN(s[i].v) /\ ~IsNaN(thresh) /\ 100 * NumOf(s[i].v) >= NumOf(thresh)]
LessThan(s, thresh) ==
    [i \in 1..Len(s) |-> ~IsNaN(s[i].v) /\ ~IsNaN(thresh) /\ 100 * NumOf(s[i].v) < NumOf(thresh)]

\* the loop of lines 95-97 (110-112), from range k on
RECURSIVE KeepLongRuns(_, _, _, _)
KeepLongRuns(s, ranges, k, minDur) ==
    IF k > Len(ranges) THEN <<>>
    ELSE (IF (ranges[k][2] - ranges[k][1] + 1) >= minDur
          THEN <<<<s[ranges[k][1]].date, s[ranges[k][2]].date>>>>
          ELSE <<>>) \o KeepLongRuns(s, ranges, k + 1, minDur)

HeatMask(s, thresh) == GreaterThan(s, thresh)

DetectHeatwaves(d, v, p, minDur) ==
    IF v \notin Columns THEN Raised("KeyError")
    ELSE LET s == Column(d, v)
             thresh == NanPercentile(Values(DropNa(s)), p)
             m == HeatMask(s, thresh)
         IN Returned(KeepLongRuns(s, ConsecutiveRanges(m), 1, minDur))

DetectColdSpells(d, v, p, minDur) ==
    IF v \notin Columns THEN Raised("KeyError")
    ELSE LET s == Column(d, v)
             thresh == NanPercentile(Values(DropNa(s)), p)
             m == LessThan(s, thresh)
         IN Returned(KeepLongRuns(s, ConsecutiveRanges(m), 1, minDur))

(***************************************************************************)
(* detect_droughts (analysis.py 116-139)                                   *)
(***************************************************************************)
\* sorted(set(df.index.year))
IndexYears(d) == SortedSeq({YearOf(d[i].date) : i \in 1..Len(d)})

\* pr.loc[(pr.index >= start) & (pr.index <= end)].sum()
RECURSIVE SumBetween(_, _, _)
SumBetween(pr, start, end) ==
    IF pr = <<>> THEN 0
    ELSE (IF Head(pr).date >= start /\ Head(pr).date <= end THEN NumOf(Head(pr).v) ELSE 0)
         + SumBetween(Tail(pr), start, end)

\* the body of the loop of lines 129-134 for year y
Season(pr, y, months) ==
    LET start == Timestamp(y, months[1], 1)
        end == MonthEnd0(Timestamp(y, months[2], 1))
    IN [year |-> y, start |-> start, end |-> end, precip |-> SumBetween(pr, start, end)]

IsDroughtStrict(precip, cutoff) == 100 * precip < NumOf(cutoff)

\* out["precip"] <= cutoff
IsDrought(precip, cutoff) == 100 * precip <= NumOf(cutoff)

\* pd.DataFrame(seasons).set_index("year") raises KeyError when seasons is the
\* empty list: the frame built from no records has no column "year".
DetectDroughts(d, v, months, p) ==
    IF v \notin Columns THEN Raised("KeyError")
    ELSE LET pr == FillNa0(Column(d, v))
             years == IndexYears(d)
             seasons == [k \in 1..Len(years) |-> Season(pr, years[k], months)]
         IN IF seasons = <<>> THEN Raised("KeyError")
            ELSE LET cutoff == NanPercentile([k \in 1..Len(seasons) |-> seasons[k].precip], p)
                 IN Returned([k \in 1..Len(seasons) |->
                        [year |-> seasons[k].year, start |-> seasons[k].start,
                         end |-> seasons[k].end, precip |-> seasons[k].precip,
                         is_drought |-> IsDrought(seasons[k].precip, cutoff),
                         cutoff |-> cutoff]])

(***************************************************************************)
(* Inputs.                                                                 *)
(***************************************************************************)
\* every sequence over S of length at most n
SeqsUpTo(S, n) == UNION {[1..k -> S] : k \in 0..n}

Cells == {NaN} \cup {Num(v) : v \in 0..MaxVal}

\* The DataFrame with column T whose index is the dates D, ascending, and
\* whose cells are c, in index order.
Frame(D, c) == [i \in 1..Cardinality(D) |-> [date |-> SortedSeq(D)[i], T |-> c[i]]]

\* d is a DataFrame with column T whose index is an ascending, duplicate-free
\* choice of at most MaxRows of the given dates.
IsFrameOver(d, dates) ==
    \E D \in SUBSET dates :
        /\ Cardinality(D) <= MaxRows
        /\ \E c \in [1..Cardinality(D) -> Cells] : d = Frame(D, c)

NoCall == [kind |-> "none"]

(***************************************************************************)
(* Run detector on its own.                                                *)
(***************************************************************************)
InitRuns ==
    /\ mask \in SeqsUpTo(BOOLEAN, MaxMask)
    /\ df = <<>>
    /\ var = "T"
    /\ window_days = 30
    /\ resample_rule = "A"
    /\ stats = TRUE
    /\ percentile = 90
    /\ min_duration = 3
    /\ season_months = <<4, 9>>
    /\ op = "none"
    /\ result = NoCall

CallConsecutiveRanges ==
    /\ op' = "_consecutive_ranges"
    /\ result' = Returned(ConsecutiveRanges(mask))
    /\ UNCHANGED args

NextRuns == CallConsecutiveRanges

SpecRuns == InitRuns /\ [][NextRuns]_vars

\* C1: the run detector returns exactly the maximal runs of consecutive True
\* positions: each returned (start, end) has start <= end and only True inside,
\* the positions just before start and just after end are False or out of
\* bounds, every True position lies in exactly one returned run, the runs are
\* in ascending order, and a mask with no True (the empty one included) gives
\* the empty list.
RunsAreMaximal ==
    op = "_consecutive_ranges" =>
        LET r == result.value
            n == Len(mask)
        IN /\ result.kind = "return"
           /\ \A k \in 1..Len(r) :
                 /\ 1 <= r[k][1] /\ r[k][1] <= r[k][2] /\ r[k][2] <= n
                 /\ \A i \in r[k][1]..r[k][2] : mask[i]
                 /\ r[k][1] = 1 \/ ~mask[r[k][1] - 1]
                 /\ r[k][2] = n \/ ~mask[r[k][2] + 1]
           /\ \A k \in 1..(Len(r) - 1) : r[k][2] + 1 < r[k + 1][1]
           /\ \A i \in 1..n :
                 mask[i] => Cardinality({k \in 1..Len(r) : r[k][1] <= i /\ i <= r[k][2]}) = 1
           /\ (\A i \in 1..n : ~mask[i]) => r = <<>>

\* An isolated True at the first and at the last position, each a run with
\* start = end, and a longer run between them.
RunsWitness ==
    /\ op = "_consecutive_ranges"
    /\ Len(mask) = 6
    /\ result.value = <<<<1, 1>>, <<3, 4>>, <<6, 6>>>>

(***************************************************************************)
(* Heatwaves and cold spells.                                              *)
(***************************************************************************)
\* four days in a row, then a gap of a week
EventDates == {0, 1, 2, 3, 10}
EventPercentiles == {0, 50, 90}

InitEvents ==
    /\ mask = <<>>
    /\ IsFrameOver(df, EventDates)
    /\ var = "T"
    /\ window_days = 30
    /\ resample_rule = "A"
    /\ stats = TRUE
    /\ percentile \in EventPercentiles
    /\ min_duration \in 1..MaxDur
    /\ season_months = <<4, 9>>
    /\ op = "none"
    /\ result = NoCall

CallDetectHeatwaves ==
    /\ op' = "detect_heatwaves"
    /\ result' = DetectHeatwaves(df, var, percentile, min_duration)
    /\ UNCHANGED args

CallDetectColdSpells ==
    /\ op' = "detect_cold_spells"
    /\ result' = DetectColdSpells(df, var, percentile, min_duration)
    /\ UNCHANGED args

NextEvents == CallDetectHeatwaves \/ CallDetectColdSpells

SpecEvents == InitEvents /\ [][NextEvents]_vars

\* the percentile threshold of the column's non-missing values, in hundredths
ThresholdOf(d, p) == NanPercentile(Values(DropNa(Column(d, "T"))), p)

\* position i of the frame holds a value strictly greater than the threshold th
Hot(d, th, i) ==
    /\ i \in 1..Len(d)
    /\ ~IsNaN(d[i].T)
    /\ ~IsNaN(th)
    /\ 100 * NumOf(d[i].T) > NumOf(th)

\* positions a..b are a maximal run of hot positions
HotRun(d, th, a, b) ==
    /\ a <= b
    /\ \A i \in a..b : Hot(d, th, i)
    /\ ~Hot(d, th, a - 1)
    /\ ~Hot(d, th, b + 1)

\* the maximal hot runs of at least minDur positions, as pairs of dates
LongHotRuns(d, th, minDur) ==
    {<<d[x[1]].date, d[x[2]].date>> :
        x \in {y \in (1..Len(d)) \X (1..Len(d)) :
                  HotRun(d, th, y[1], y[2]) /\ y[2] - y[1] + 1 >= minDur}}

\* C2: detect_heatwaves returns exactly the maximal runs of consecutive series
\* positions whose value is strictly greater than the percentile threshold (a
\* missing value or a value equal to the threshold ends a run) that hold at
\* least min_duration positions, each as (date at its first position, date at
\* its last position), in ascending order; no shorter run is returned.
HeatwavesAreLongHotRuns ==
    (op = "detect_heatwaves" /\ var \in Columns) =>
        /\ result.kind = "return"
        /\ LET r == result.value
               expected == LongHotRuns(df, ThresholdOf(df, percentile), min_duration)
           IN /\ {r[k] : k \in 1..Len(r)} = expected
              /\ Len(r) = Cardinality(expected)
              /\ \A k \in 1..(Len(r) - 1) : r[k][2] < r[k + 1][1]

\* Two hot runs are found, one of them across the gap in the calendar, and
\* the value equal to the threshold between them ends the first.
HeatwavesWitness ==
    /\ op = "detect_heatwaves"
    /\ Len(df) = 4
    /\ min_duration = 1
    /\ Len(result.value) = 2
    /\ \E i \in 1..Len(df) : ~IsNaN(df[i].T) /\ 100 * NumOf(df[i].T) = NumOf(ThresholdOf(df, percentile))
    /\ \E k \in 1..2 : result.value[k][2] = 10 /\ result.value[k][1] < 10

(***************************************************************************)
(* Droughts.                                                               *)
(***************************************************************************)
\* the days around the ends of the seasons below, over three years
DroughtDates ==
    {Timestamp(2000, 2, 29), Timestamp(2000, 4, 1), Timestamp(2000, 9, 30),
     Timestamp(2001, 9, 30), Timestamp(2001, 10, 1), Timestamp(2002, 4, 1)}
DroughtSeasons == {<<4, 9>>, <<2, 2>>}
DroughtPercentiles == {20, 50}

InitDroughts ==
    /\ mask = <<>>
    /\ IsFrameOver(df, DroughtDates)
    /\ var = "T"
    /\ window_days = 30
    /\ resample_rule = "A"
    /\ stats = TRUE
    /\ percentile \in DroughtPercentiles
    /\ min_duration = 3
    /\ season_months \in DroughtSeasons
    /\ op = "none"
    /\ result = NoCall

CallDetectDroughts ==
    /\ op' = "detect_droughts"
    /\ result' = DetectDroughts(df, var, season_months, percentile)
    /\ UNCHANGED args

NextDroughts == CallDetectDroughts

SpecDroughts == InitDroughts /\ [][NextDroughts]_vars

\* the totals of the returned rows
Totals(rows) == [k \in 1..Len(rows) |-> rows[k].precip]

\* C3: in the result of detect_droughts a year is flagged as drought if and
\* only if its seasonal total is less than or equal to the percentile cutoff
\* computed across all years' totals (a year exactly at the cutoff is
\* flagged), and every row carries that same cutoff.
DroughtFlagIsInclusive ==
    (op = "detect_droughts" /\ result.kind = "return") =>
        LET rows == result.value
            cutoff == NanPercentile(Totals(rows), percentile)
        IN \A k \in 1..Len(rows) :
              /\ rows[k].cutoff = cutoff
              /\ rows[k].is_drought <=> (100 * rows[k].precip <= NumOf(cutoff))

\* Three years, the middle total exactly at the cutoff and flagged, a lower
\* one flagged and a higher one not.
DroughtFlagWitness ==
    /\ op = "detect_droughts"
    /\ result.kind = "return"
    /\ Len(result.value) = 3
    /\ \E k \in 1..3 :
          /\ 100 * result.value[k].precip = NumOf(result.value[k].cutoff)
          /\ result.value[k].is_drought
    /\ \E k \in 1..3 : 100 * result.value[k].precip < NumOf(result.value[k].cutoff)
    /\ \E k \in 1..3 : ~result.value[k].is_drought

\* the total the claim speaks of: the sum of the values of column T at the
\* timestamps of year y from the first day of the start month to the last day
\* of the end month, NaN counted as zero
SeasonTotal(d, y, months) ==
    LET last == Timestamp(y, months[2], DaysInMonth(y, months[2]))
        inside == {i \in 1..Len(d) :
                     /\ Timestamp(y, months[1], 1) <= d[i].date
                     /\ d[i].date <= last
                     /\ ~IsNaN(d[i].T)}
    IN SumSeq([k \in 1..Cardinality(inside) |-> NumOf(d[SortedSeq(inside)[k]].T)])

\* one row per calendar year with a timestamp, each with the season's total
OneSummaryPerYear ==
    LET rows == result.value
        years == {YearOf(df[i].date) : i \in 1..Len(df)}
    IN /\ result.kind = "return"
       /\ {rows[k].year : k \in 1..Len(rows)} = years
       /\ Len(rows) = Cardinality(years)
       /\ \A k \in 1..Len(rows) :
             rows[k].precip = SeasonTotal(df, rows[k].year, season_months)

\* C4: for any series containing the precipitation variable and any season
\* with start month <= end month, detect_droughts returns exactly one summary
\* per calendar year that has a timestamp in the series, whose cumulative
\* value is the sum of the values inside the season of that year, missing
\* values counted as zero.  (Fails for the series with no rows.)
DroughtsOneSummaryPerYear ==
    (op = "detect_droughts" /\ var \in Columns) => OneSummaryPerYear

\* What holds of the code: the same, for every series with at least one row.
DroughtsOneSummaryPerYearNonEmpty ==
    (op = "detect_droughts" /\ var \in Columns /\ df # <<>>) => OneSummaryPerYear

(***************************************************************************)
(* Records.                                                                *)
(***************************************************************************)
RecordDates == {0, 1, 2, 3, 10}

InitRecords ==
    /\ mask = <<>>
    /\ IsFrameOver(df, RecordDates)
    /\ var = "T"
    /\ window_days = 30
    /\ resample_rule = "A"
    /\ stats = TRUE
    /\ percentile = 90
    /\ min_duration = 3
    /\ season_months = <<4, 9>>
    /\ op = "none"
    /\ result = NoCall

CallGetMonthlyRecords ==
    /\ op' = "get_monthly_records"
    /\ result' = GetMonthlyRecords(df, var)
    /\ UNCHANGED args

NextRecords == CallGetMonthlyRecords

SpecRecords == InitRecords /\ [][NextRecords]_vars

\* the positions of the frame with a non-missing value
Present(d) == {i \in 1..Len(d) : ~IsNaN(d[i].T)}

RollingDates == {0, 1, 2, 3, 6}

InitRolling ==
    /\ mask = <<>>
    /\ IsFrameOver(df, RollingDates)
    /\ var = "T"
    /\ window_days \in (-1)..MaxWindow
    /\ resample_rule = "A"
    /\ stats = TRUE
    /\ percentile = 90
    /\ min_duration = 3
    /\ season_months = <<4, 9>>
    /\ op = "none"
    /\ result = NoCall

CallRollingMean ==
    /\ op' = "rolling_mean"
    /\ result' \in RollingMean(df, var, window_days)
    /\ UNCHANGED args

NextRolling == CallRollingMean

SpecRolling == InitRolling /\ [][NextRolling]_vars

\* the positions whose value is non-missing and whose date lies in (t - w, t]
InWindow(d, t, w) == {j \in Present(d) : t - w < d[j].date /\ d[j].date <= t}

SumOver(d, S) == SumSeq([k \in 1..Cardinality(S) |-> NumOf(d[SortedSeq(S)[k]].T)])

\* C5: for window_days >= 1 rolling_mean returns one point for each
\* non-missing input point, at the same timestamps and in the same order, and
\* the value at timestamp t is the arithmetic mean of exactly the non-missing
\* values whose timestamp lies in (t - window_days, t]; that window holds t
\* itself, so no output value is null.
RollingMeanIsTrailingWindowMean ==
    (op = "rolling_mean" /\ var \in Columns /\ window_days >= 1) =>
        /\ result.kind = "return"
        /\ LET out == result.value
               kept == SortedSeq(Present(df))
           IN /\ Len(out) = Len(kept)
              /\ \A i \in 1..Len(out) :
                    LET t == df[kept[i]].date
                        W == InWindow(df, t, window_days)
                    IN /\ out[i].date = t
                       /\ kept[i] \in W
                       /\ out[i].mean[2] >= 1
                       /\ out[i].mean[1] * Cardinality(W) = SumOver(df, W) * out[i].mean[2]

\* A window of three days over a series with a missing value and a gap: the
\* first point averages one sample, a later one fewer than three because of
\* the gap, and some window holds several samples of different values.
RollingWitness ==
    /\ op = "rolling_mean"
    /\ window_days = 3
    /\ Len(df) = 4
    /\ Cardinality(Present(df)) = 3
    /\ df[4].date = 6
    /\ result.kind = "return"
    /\ result.value[1].mean[2] = 1
    /\ result.value[3].mean[2] = 1
    /\ \E i \in 1..3 : result.value[i].mean[2] = 2 /\ result.value[i].mean[1] = 1

\* C8: rolling_mean with window_days <= 0 fails with an invalid-parameter
\* error for every series that contains the variable, a series with no rows
\* or with only missing values included, and returns no series.
RollingRejectsNonPositiveWindow ==
    (op = "rolling_mean" /\ var \in Columns /\ window_days <= 0) =>
        result.kind = "ValueError"

(***************************************************************************)
(* Trend.                                                                  *)
(***************************************************************************)
\* two days of one month, a day two months later, the first day of the next
\* year, and a day after a year without data
TrendDates ==
    {Timestamp(2000, 1, 15), Timestamp(2000, 1, 20), Timestamp(2000, 3, 10),
     Timestamp(2001, 1, 1), Timestamp(2003, 6, 15)}

InitTrend ==
    /\ mask = <<>>
    /\ IsFrameOver(df, TrendDates)
    /\ var = "T"
    /\ window_days = 30
    /\ resample_rule \in ResampleRules
    /\ stats \in BOOLEAN
    /\ percentile = 90
    /\ min_duration = 3
    /\ season_months = <<4, 9>>
    /\ op = "none"
    /\ result = NoCall

CallEstimateTrend ==
    /\ op' = "estimate_trend"
    /\ result' = EstimateTrend(df, var, resample_rule, stats)
    /\ UNCHANGED args

NextTrend == CallEstimateTrend

SpecTrend == InitTrend /\ [][NextTrend]_vars

\* the buckets that hold a non-missing value
NonEmptyBuckets(d, rule) == {BucketKey(d[i].date, rule) : i \in Present(d)}

\* the (bucket year, bucket mean) pairs of the non-empty buckets, ascending
BucketPairs(d, rule) ==
    LET keys == SortedSeq(NonEmptyBuckets(d, rule))
    IN [k \in 1..Len(keys) |->
          LET S == {i \in Present(d) : BucketKey(d[i].date, rule) = keys[k]}
          IN <<BucketYear(keys[k], rule), <<SumOver(d, S), Cardinality(S)>>>>]

\* C9: estimate_trend on a series that contains the variable but yields fewer
\* than 2 non-empty resample buckets returns the all-absent result (slope
\* None, p_value None) and raises nothing.
TrendAbsentBelowTwoBuckets ==
    (op = "estimate_trend" /\ var \in Columns
        /\ Cardinality(NonEmptyBuckets(df, resample_rule)) < 2) =>
        result = Returned([slope |-> None, p_value |-> None])

\* Two non-missing values in one bucket and a missing value two years later:
\* the all-absent result.
TrendAbsentWitness ==
    /\ op = "estimate_trend"
    /\ Cardinality(Present(df)) = 2
    /\ Len(df) = 3
    /\ YearOf(df[3].date) = 2003
    /\ Cardinality(NonEmptyBuckets(df, resample_rule)) = 1
    /\ result = Returned([slope |-> None, p_value |-> None])

\* C10: with at least 2 non-empty resample buckets, for any resample period,
\* estimate_trend returns a result in which slope is present; p_value is
\* present exactly when scipy.stats is available, and when both are present
\* they come from one fit over the same (bucket year, bucket mean) pairs.
TrendSlopePresentFromTwoBuckets ==
    (op = "estimate_trend" /\ var \in Columns
        /\ Cardinality(NonEmptyBuckets(df, resample_rule)) >= 2) =>
        /\ result.kind = "return"
        /\ result.value.slope # None
        /\ (result.value.p_value # None) <=> stats
        /\ LET pairs == BucketPairs(df, resample_rule)
           IN /\ result.value.slope[2] = [k \in 1..Len(pairs) |-> pairs[k][1]]
              /\ result.value.slope[3] = [k \in 1..Len(pairs) |-> pairs[k][2]]
              /\ result.value.p_value # None => result.value.p_value = result.value.slope

\* What holds of the code: the same, whenever the non-empty buckets do not all
\* carry the same year or scipy.stats is not available.
TrendSlopePresentFromTwoYears ==
    (op = "estimate_trend" /\ var \in Columns
        /\ Cardinality(NonEmptyBuckets(df, resample_rule)) >= 2
        /\ (~stats \/ Cardinality({YearOf(df[i].date) : i \in Present(df)}) >= 2)) =>
        /\ result.kind = "return"
        /\ result.value.slope # None
        /\ (result.value.p_value # None) <=> stats
        /\ result.value.p_value # None => result.value.p_value = result.value.slope

(***************************************************************************)
(* Every entry point, on a column that may be missing.                     *)
(***************************************************************************)
Dates == {Timestamp(2000, 6, 1), Timestamp(2000, 6, 2), Timestamp(2001, 6, 1)}
Variables == {"T", "NONEXISTENT"}
EntryPoints ==
    {"get_monthly_records", "rolling_mean", "estimate_trend",
     "detect_heatwaves", "detect_cold_spells", "detect_droughts"}

Init ==
    /\ mask = <<>>
    /\ IsFrameOver(df, Dates)
    /\ var \in Variables
    /\ window_days = 30
    /\ resample_rule = "A"
    /\ stats \in BOOLEAN
    /\ percentile \in {20, 90}
    /\ min_duration = 3
    /\ season_months = <<4, 9>>
    /\ op = "none"
    /\ result = NoCall

Next ==
    \/ CallGetMonthlyRecords
    \/ CallRollingMean
    \/ CallEstimateTrend
    \/ CallDetectHeatwaves
    \/ CallDetectColdSpells
    \/ CallDetectDroughts

Spec == Init /\ [][Next]_vars

\* C7: every analysis entry point called with a variable that is not a column
\* of the input fails with KeyError, for every input series, the empty one
\* included, and returns nothing.
MissingVariableRaisesKeyError ==
    (op \in EntryPoints /\ var \notin Columns) => result = Raised("KeyError")

\* rolling_mean, which has no column test of its own, called with the missing
\* variable on the series with no rows.
MissingVariableWitness ==
    /\ op = "rolling_mean"
    /\ var = "NONEXISTENT"
    /\ df = <<>>
    /\ result = Raised("KeyError")

(***************************************************************************)
(* load_cambridge_data, from the parsed rows on (data_loader.py 118-123)   *)
(***************************************************************************)
\* Index.is_monotonic_increasing: the dates never decrease
IsMonotonicIncreasing(d) == \A i \in 1..(Len(d) - 1) : d[i].date <= d[i + 1].date

\* the orders of the positions 1..n
Orders(n) == {f \in [1..n -> 1..n] : \A i, j \in 1..n : f[i] = f[j] => i = j}

\* df.sort_index(): a frame whose index is already monotonic is returned as it
\* is.  Any other frame is ordered by numpy's quicksort (kind is left at its
\* default), which is not a stable sort: rows of equal date come out in an
\* order the source does not fix, so every ascending order is an outcome.
SortIndex(d) ==
    IF IsMonotonicIncreasing(d) THEN {d}
    ELSE {s \in {[i \in 1..Len(d) |-> d[f[i]]] : f \in Orders(Len(d))} :
             IsMonotonicIncreasing(s)}

\* df.loc[~df.index.duplicated(keep="first")]: a row stays unless an earlier
\* row of the frame has its date
RECURSIVE DropDuplicated(_, _)
DropDuplicated(d, seen) ==
    IF d = <<>> THEN <<>>
    ELSE (IF Head(d).date \in seen THEN <<>> ELSE <<Head(d)>>)
         \o DropDuplicated(Tail(d), seen \cup {Head(d).date})

\* df.loc[:, df.notna().any(axis=0)]: a column with no value is dropped
DropEmptyColumns(d) ==
    IF \E i \in 1..Len(d) : ~IsNaN(d[i].T) THEN d
    ELSE [i \in 1..Len(d) |-> [date |-> d[i].date]]

\* every table lines 118-123 can return for the parsed rows d
LoadCambridgeData(d) ==
    {Returned(DropEmptyColumns(DropDuplicated(s, {}))) : s \in SortIndex(d)}

\* three days, so that four rows repeat a date
LoaderDates == {0, 1, 2}

\* the parsed rows, in file order: any order, any date repeated
InitLoader ==
    /\ mask = <<>>
    /\ df \in SeqsUpTo([date : LoaderDates, T : Cells], MaxRows)
    /\ var = "T"
    /\ window_days = 30
    /\ resample_rule = "A"
    /\ stats = TRUE
    /\ percentile = 90
    /\ min_duration = 3
    /\ season_months = <<4, 9>>
    /\ op = "none"
    /\ result = NoCall

CallLoadCambridgeData ==
    /\ op' = "load_cambridge_data"
    /\ result' \in LoadCambridgeData(df)
    /\ UNCHANGED args

NextLoader == CallLoadCambridgeData

SpecLoader == InitLoader /\ [][NextLoader]_vars

\* the first position of the parsed rows that carries date t
FirstAt(d, t) == CHOOSE i \in 1..Len(d) : d[i].date = t /\ \A j \in 1..(i - 1) : d[j].date # t

\* the table has strictly ascending dates and holds every date of the parsed
\* rows once, and no other
LoadedIndexIsTheDates ==
    LET out == result.value
    IN /\ result.kind = "return"
       /\ \A i \in 1..(Len(out) - 1) : out[i].date < out[i + 1].date
       /\ {out[i].date : i \in 1..Len(out)} = {df[i].date : i \in 1..Len(df)}

\* row i of the table is row j of the parsed rows, up to a dropped column
SameRow(out, i, j) ==
    /\ out[i].date = df[j].date
    /\ "T" \in DOMAIN out[i] => out[i].T = df[j].T

\* C11: for any sequence of input rows, in any order and with any duplicated
\* dates, the table built by load_cambridge_data has strictly ascending
\* timestamps with no duplicate, holds every distinct date of the input once
\* and no other date, and for each date that occurs several times the row kept
\* is the one that occurs first in input order.
LoaderKeepsFirstOccurrence ==
    op = "load_cambridge_data" =>
        /\ LoadedIndexIsTheDates
        /\ \A i \in 1..Len(result.value) :
              SameRow(result.value, i, FirstAt(df, result.value[i].date))

\* What holds of the code: the index is as claimed and each kept row is some
\* input row of its date; it is the first one when the input dates never
\* decrease, where sort_index leaves the order alone.
LoaderKeepsSomeOccurrence ==
    op = "load_cambridge_data" =>
        /\ LoadedIndexIsTheDates
        /\ \A i \in 1..Len(result.value) :
              /\ \E j \in 1..Len(df) : SameRow(result.value, i, j)
              /\ IsMonotonicIncreasing(df) =>
                    SameRow(result.value, i, FirstAt(df, result.value[i].date))

====
